---- MODULE Spec2Model ----
(***************************************************************************)
(* Model of src/main.cpp: a coordinator thread (calculatePi) and           *)
(* numberOfThreads worker threads (calculateIteration) that share the      *)
(* atomic block counter nextBlock and the atomic accumulator pi, and       *)
(* synchronise through one manual-reset event and one thread suspend       *)
(* count per worker.                                                       *)
(*                                                                         *)
(* Win32 primitives are modelled by their documented behaviour:            *)
(*   CreateThread(CREATE_SUSPENDED)  suspend count 1                       *)
(*   SuspendThread                   suspend count + 1                     *)
(*   ResumeThread                    suspend count - 1 when it is > 0,     *)
(*                                   nothing otherwise                     *)
(*   a thread executes only while its suspend count is 0                   *)
(*   WaitForMultipleObjects(any)     smallest index of a signaled object   *)
(*   WaitForMultipleObjects(all)     returns when every object is signaled *)
(*   a thread handle is signaled once the thread has returned              *)
(*                                                                         *)
(* The int products of lines 73 and 78 are only evaluated for              *)
(* currentBlock <= NUMBER_OF_BLOCKS, so they stay below N + 2*BLOCK_SIZE   *)
(* and never reach the 32-bit limit; they are kept as plain integers.      *)
(***************************************************************************)
EXTENDS Integers, Sequences, FiniteSets, TLC

\* ---------------------------------------------------------------- bounds
MaxThreads == 3
MaxN == 2
MaxBlockSize == 2
MaxSweepN == 10
MaxSweepBlockSize == 4
SweepExtra == 2

VARIABLES
    N,                    \* #define N (number of sample points)
    BLOCK_SIZE,           \* #define BLOCK_SIZE
    numberOfThreads,      \* calculatePi: int numberOfThreads
    nextBlock,            \* std::atomic<long> nextBlock
    pi,                   \* std::atomic<double> pi, kept as the fraction num/den
    suspendCount,         \* per thread: the kernel's suspend count
    eventsArray,          \* per slot: TRUE when the event is signaled
    pc,                   \* per worker: position in calculateIteration
    currentBlock,         \* per worker: int currentBlock
    threadPi,             \* per worker: double threadPi
    held,                 \* per worker: the block indices it was given, in order
    cpc,                  \* coordinator: position in calculatePi
    i,                    \* coordinator: loop variable i
    suspendedThreadIndex, \* coordinator: unsigned int suspendedThreadIndex
    sweepBlock,           \* block index of the range computation being swept
    sweepRanges,          \* <<startIteration, endIteration>> per swept block
    sweepCount            \* per sample index: how often the for loop visited it

vars == <<N, BLOCK_SIZE, numberOfThreads, nextBlock, pi, suspendCount,
          eventsArray, pc, currentBlock, threadPi, held, cpc, i,
          suspendedThreadIndex, sweepBlock, sweepRanges, sweepCount>>

protocolVars == <<numberOfThreads, nextBlock, pi, suspendCount, eventsArray,
                  pc, currentBlock, threadPi, held, cpc, i,
                  suspendedThreadIndex>>

sweepVars == <<sweepBlock, sweepRanges, sweepCount>>

\* ------------------------------------------------------- pure definitions
Threads == 0 .. (numberOfThreads - 1)

INVALID_HANDLE == -1

\* line 25: N/BLOCK_SIZE + (N % BLOCK_SIZE ? 1 : 0)
NUMBER_OF_BLOCKS_truncated == N \div BLOCK_SIZE

NUMBER_OF_BLOCKS ==
    (N \div BLOCK_SIZE) + (IF N % BLOCK_SIZE # 0 THEN 1 ELSE 0)

\* line 73
startIteration(k) == k * BLOCK_SIZE

\* lines 78-86
endIteration_unclamped(k) == (k + 1) * BLOCK_SIZE

endIteration(k) ==
    IF (k + 1) * BLOCK_SIZE > N THEN N ELSE (k + 1) * BLOCK_SIZE

\* line 92: the values i takes in  for (i = start; i < end; i++)
Iterations(k) == startIteration(k) .. (endIteration(k) - 1)

\* line 93: the integrand, taken integer-valued.  4^j makes the sum determine
\* how often each sample index was added (as long as none is added 4 times).
f(j) == 4 ^ j

RECURSIVE SumF(_)
SumF(S) == IF S = {} THEN 0
           ELSE LET j == CHOOSE x \in S : TRUE IN f(j) + SumF(S \ {j})

\* lines 92-94: threadPi after the for loop over block k
BlockSum(k) == SumF(Iterations(k))

\* std::atomic<long>::fetch_add(1): the stored value afterwards
\* (the value returned is the one stored before)
fetch_add_lost(v, d) == v

fetch_add_back(v, d) == v - d

fetch_add(v, d) == v + d

\* std::atomic<double>::fetch_add on pi
pi_fetch_add(p, x) == [num |-> p.num + x * p.den, den |-> p.den]

\* line 237: pi = pi / N
pi_divide(p, d) == [num |-> p.num, den |-> p.den * d]

\* Win32 thread suspend count
ResumeThread(sc, h) ==
    IF h \in DOMAIN sc /\ sc[h] > 0 THEN [sc EXCEPT ![h] = @ - 1] ELSE sc

SuspendThread(sc, h) == [sc EXCEPT ![h] = @ + 1]

\* Win32 manual-reset events
SetEvent_all(ev, h) == [w \in DOMAIN ev |-> TRUE]

SetEvent(ev, h) == [ev EXCEPT ![h] = TRUE]

ResetEvent(ev, h) == [ev EXCEPT ![h] = FALSE]

Signaled(ev) == { j \in DOMAIN ev : ev[j] }

\* WaitForMultipleObjects(n, events, false, INFINITE) - WAIT_OBJECT_0
WaitForAny_last(ev) == CHOOSE j \in DOMAIN ev : \A k \in DOMAIN ev : k <= j

WaitForAny(ev) == CHOOSE j \in Signaled(ev) : \A k \in Signaled(ev) : j <= k

\* WaitForMultipleObjects(n, threads, true, INFINITE) may return
WaitForAll_any(p) == \E w \in DOMAIN p : p[w] = "done"

WaitForAll(p) == \A w \in DOMAIN p : p[w] = "done"

\* a worker thread executes only when created, not returned and not suspended
Runnable(w) == pc[w] \notin {"none", "done"} /\ suspendCount[w] = 0

\* --------------------------------------------------------- initial states
ProtocolIdle ==
    /\ nextBlock = 0
    /\ pi = [num |-> 0, den |-> 1]
    /\ suspendCount = [w \in Threads |-> 0]
    /\ eventsArray = [w \in Threads |-> FALSE]
    /\ pc = [w \in Threads |-> "none"]
    /\ currentBlock = [w \in Threads |-> 0]
    /\ threadPi = [w \in Threads |-> 0]
    /\ held = [w \in Threads |-> << >>]
    /\ cpc = "create"
    /\ i = 0
    /\ suspendedThreadIndex = 0

SweepIdle ==
    /\ sweepBlock = 0
    /\ sweepRanges = << >>
    /\ sweepCount = [j \in 0 .. (N - 1) |-> 0]

Init ==
    /\ N \in 1 .. MaxN
    /\ BLOCK_SIZE \in 1 .. MaxBlockSize
    /\ numberOfThreads \in 1 .. MaxThreads
    /\ ProtocolIdle
    /\ SweepIdle

\* ------------------------------------------------- coordinator: calculatePi
\* lines 161-166: one iteration of the creation loop
CreateThread_running ==
    /\ cpc = "create"
    /\ i < numberOfThreads
    /\ pc' = [pc EXCEPT ![i] = "while"]
    /\ suspendCount' = [suspendCount EXCEPT ![i] = 0]
    /\ currentBlock' = [currentBlock EXCEPT ![i] = i]
    /\ threadPi' = [threadPi EXCEPT ![i] = 0]
    /\ held' = [held EXCEPT ![i] = <<i>>]
    /\ eventsArray' = [eventsArray EXCEPT ![i] = FALSE]
    /\ i' = i + 1
    /\ cpc' = IF i + 1 < numberOfThreads THEN "create" ELSE "assign"
    /\ UNCHANGED <<N, BLOCK_SIZE, numberOfThreads, nextBlock, pi,
                   suspendedThreadIndex, sweepVars>>

CreateThread ==
    /\ cpc = "create"
    /\ i < numberOfThreads
    /\ pc' = [pc EXCEPT ![i] = "while"]
    /\ suspendCount' = [suspendCount EXCEPT ![i] = 1]
    /\ currentBlock' = [currentBlock EXCEPT ![i] = i]
    /\ threadPi' = [threadPi EXCEPT ![i] = 0]
    /\ held' = [held EXCEPT ![i] = <<i>>]
    /\ eventsArray' = [eventsArray EXCEPT ![i] = FALSE]
    /\ i' = i + 1
    /\ cpc' = IF i + 1 < numberOfThreads THEN "create" ELSE "assign"
    /\ UNCHANGED <<N, BLOCK_SIZE, numberOfThreads, nextBlock, pi,
                   suspendedThreadIndex, sweepVars>>

\* line 173: nextBlock = numberOfThreads
AssignNextBlock_zero ==
    /\ cpc = "assign"
    /\ nextBlock' = 0
    /\ i' = 0
    /\ cpc' = "start"
    /\ UNCHANGED <<N, BLOCK_SIZE, numberOfThreads, pi, suspendCount,
                   eventsArray, pc, currentBlock, threadPi, held,
                   suspendedThreadIndex, sweepVars>>

AssignNextBlock ==
    /\ cpc = "assign"
    /\ nextBlock' = numberOfThreads
    /\ i' = 0
    /\ cpc' = "start"
    /\ UNCHANGED <<N, BLOCK_SIZE, numberOfThreads, pi, suspendCount,
                   eventsArray, pc, currentBlock, threadPi, held,
                   suspendedThreadIndex, sweepVars>>

\* lines 179-181: for (i = 0; i <= numberOfThreads; i++) ResumeThread(threadsArray[i]).
\* The pass with i = numberOfThreads reads one slot past the array: the value
\* read is whatever lies there, an invalid handle or the handle of a worker.
StartThread ==
    /\ cpc = "start"
    /\ i <= numberOfThreads
    /\ \E h \in Threads \cup {INVALID_HANDLE} :
          /\ i < numberOfThreads => h = i
          /\ suspendCount' = ResumeThread(suspendCount, h)
    /\ i' = i + 1
    /\ cpc' = IF i + 1 <= numberOfThreads THEN "start" ELSE "test"
    /\ UNCHANGED <<N, BLOCK_SIZE, numberOfThreads, nextBlock, pi, eventsArray,
                   pc, currentBlock, threadPi, held, suspendedThreadIndex,
                   sweepVars>>

\* line 204: while (nextBlock <= NUMBER_OF_BLOCKS)
DispatchTest_skip ==
    /\ cpc = "test"
    /\ cpc' = "final"
    /\ i' = 0
    /\ UNCHANGED <<N, BLOCK_SIZE, numberOfThreads, nextBlock, pi, suspendCount,
                   eventsArray, pc, currentBlock, threadPi, held,
                   suspendedThreadIndex, sweepVars>>

DispatchTest ==
    /\ cpc = "test"
    /\ cpc' = IF nextBlock <= NUMBER_OF_BLOCKS THEN "wait" ELSE "final"
    /\ i' = IF nextBlock <= NUMBER_OF_BLOCKS THEN i ELSE 0
    /\ UNCHANGED <<N, BLOCK_SIZE, numberOfThreads, nextBlock, pi, suspendCount,
                   eventsArray, pc, currentBlock, threadPi, held,
                   suspendedThreadIndex, sweepVars>>

\* line 212: WaitForMultipleObjects(numberOfThreads, eventsArray, false, INFINITE)
DispatchWait ==
    /\ cpc = "wait"
    /\ Signaled(eventsArray) # {}
    /\ suspendedThreadIndex' = WaitForAny(eventsArray)
    /\ cpc' = "reset"
    /\ UNCHANGED <<N, BLOCK_SIZE, numberOfThreads, nextBlock, pi, suspendCount,
                   eventsArray, pc, currentBlock, threadPi, held, i, sweepVars>>

\* line 215: ResetEvent(eventsArray[suspendedThreadIndex])
DispatchReset ==
    /\ cpc = "reset"
    /\ eventsArray' = ResetEvent(eventsArray, suspendedThreadIndex)
    /\ cpc' = "resume"
    /\ UNCHANGED <<N, BLOCK_SIZE, numberOfThreads, nextBlock, pi, suspendCount,
                   pc, currentBlock, threadPi, held, i, suspendedThreadIndex,
                   sweepVars>>

\* line 218: ResumeThread(threadsArray[suspendedThreadIndex])
DispatchResume ==
    /\ cpc = "resume"
    /\ suspendCount' = ResumeThread(suspendCount, suspendedThreadIndex)
    /\ cpc' = "test"
    /\ UNCHANGED <<N, BLOCK_SIZE, numberOfThreads, nextBlock, pi, eventsArray,
                   pc, currentBlock, threadPi, held, i, suspendedThreadIndex,
                   sweepVars>>

\* lines 224-231: one iteration of the final resume loop
FinalResume ==
    /\ cpc = "final"
    /\ i < numberOfThreads
    /\ suspendCount' = ResumeThread(suspendCount, i)
    /\ i' = i + 1
    /\ cpc' = IF i + 1 < numberOfThreads THEN "final" ELSE "waitall"
    /\ UNCHANGED <<N, BLOCK_SIZE, numberOfThreads, nextBlock, pi, eventsArray,
                   pc, currentBlock, threadPi, held, suspendedThreadIndex,
                   sweepVars>>

\* line 234: WaitForMultipleObjects(numberOfThreads, threadsArray, true, INFINITE)
WaitAll ==
    /\ cpc = "waitall"
    /\ WaitForAll(pc)
    /\ cpc' = "divide"
    /\ UNCHANGED <<N, BLOCK_SIZE, numberOfThreads, nextBlock, pi, suspendCount,
                   eventsArray, pc, currentBlock, threadPi, held, i,
                   suspendedThreadIndex, sweepVars>>

\* line 237: pi = pi / N
Divide ==
    /\ cpc = "divide"
    /\ pi' = pi_divide(pi, N)
    /\ cpc' = "done"
    /\ UNCHANGED <<N, BLOCK_SIZE, numberOfThreads, nextBlock, suspendCount,
                   eventsArray, pc, currentBlock, threadPi, held, i,
                   suspendedThreadIndex, sweepVars>>

\* ------------------------------------------- worker: calculateIteration
\* line 60 and, when the test holds, lines 73-94
LoopTest(w) ==
    /\ pc[w] = "while"
    /\ Runnable(w)
    /\ IF currentBlock[w] <= NUMBER_OF_BLOCKS
          THEN /\ threadPi' = [threadPi EXCEPT ![w] = @ + BlockSum(currentBlock[w])]
               /\ pc' = [pc EXCEPT ![w] = "SetEvent"]
          ELSE /\ threadPi' = threadPi
               /\ pc' = [pc EXCEPT ![w] = "fold"]
    /\ UNCHANGED <<N, BLOCK_SIZE, numberOfThreads, nextBlock, pi, suspendCount,
                   eventsArray, currentBlock, held, cpc, i,
                   suspendedThreadIndex, sweepVars>>

\* line 101: SetEvent(eventsArray[threadID])
SignalDone(w) ==
    /\ pc[w] = "SetEvent"
    /\ Runnable(w)
    /\ eventsArray' = SetEvent(eventsArray, w)
    /\ pc' = [pc EXCEPT ![w] = "if"]
    /\ UNCHANGED <<N, BLOCK_SIZE, numberOfThreads, nextBlock, pi, suspendCount,
                   currentBlock, threadPi, held, cpc, i, suspendedThreadIndex,
                   sweepVars>>

\* line 106: if (nextBlock <= NUMBER_OF_BLOCKS)
CheckNext(w) ==
    /\ pc[w] = "if"
    /\ Runnable(w)
    /\ pc' = [pc EXCEPT ![w] = IF nextBlock <= NUMBER_OF_BLOCKS
                                  THEN "SuspendThread" ELSE "fetch_add"]
    /\ UNCHANGED <<N, BLOCK_SIZE, numberOfThreads, nextBlock, pi, suspendCount,
                   eventsArray, currentBlock, threadPi, held, cpc, i,
                   suspendedThreadIndex, sweepVars>>

\* line 107: SuspendThread(threadsArray[threadID])
SuspendSelf(w) ==
    /\ pc[w] = "SuspendThread"
    /\ Runnable(w)
    /\ suspendCount' = SuspendThread(suspendCount, w)
    /\ pc' = [pc EXCEPT ![w] = "fetch_add"]
    /\ UNCHANGED <<N, BLOCK_SIZE, numberOfThreads, nextBlock, pi, eventsArray,
                   currentBlock, threadPi, held, cpc, i, suspendedThreadIndex,
                   sweepVars>>

\* line 125: currentBlock = nextBlock.fetch_add(1, relaxed)
ClaimNext(w) ==
    /\ pc[w] = "fetch_add"
    /\ Runnable(w)
    /\ currentBlock' = [currentBlock EXCEPT ![w] = nextBlock]
    /\ held' = [held EXCEPT ![w] = Append(@, nextBlock)]
    /\ nextBlock' = fetch_add(nextBlock, 1)
    /\ pc' = [pc EXCEPT ![w] = "while"]
    /\ UNCHANGED <<N, BLOCK_SIZE, numberOfThreads, pi, suspendCount,
                   eventsArray, threadPi, cpc, i, suspendedThreadIndex,
                   sweepVars>>

\* lines 133-135: pi.fetch_add(threadPi, relaxed); return 0
Fold_again(w) ==
    /\ pc[w] = "fold"
    /\ Runnable(w)
    /\ pi' = pi_fetch_add(pi, threadPi[w])
    /\ pc' = [pc EXCEPT ![w] = "fetch_add"]
    /\ UNCHANGED <<N, BLOCK_SIZE, numberOfThreads, nextBlock, suspendCount,
                   eventsArray, currentBlock, threadPi, held, cpc, i,
                   suspendedThreadIndex, sweepVars>>

Fold(w) ==
    /\ pc[w] = "fold"
    /\ Runnable(w)
    /\ pi' = pi_fetch_add(pi, threadPi[w])
    /\ pc' = [pc EXCEPT ![w] = "done"]
    /\ UNCHANGED <<N, BLOCK_SIZE, numberOfThreads, nextBlock, suspendCount,
                   eventsArray, currentBlock, threadPi, held, cpc, i,
                   suspendedThreadIndex, sweepVars>>

Coordinator ==
    \/ CreateThread
    \/ AssignNextBlock
    \/ StartThread
    \/ DispatchTest
    \/ DispatchWait
    \/ DispatchReset
    \/ DispatchResume
    \/ FinalResume
    \/ WaitAll
    \/ Divide

Worker(w) ==
    \/ LoopTest(w)
    \/ SignalDone(w)
    \/ CheckNext(w)
    \/ SuspendSelf(w)
    \/ ClaimNext(w)
    \/ Fold(w)

Next ==
    \/ CreateThread
    \/ AssignNextBlock
    \/ StartThread
    \/ DispatchTest
    \/ DispatchWait
    \/ DispatchReset
    \/ DispatchResume
    \/ FinalResume
    \/ WaitAll
    \/ Divide
    \/ \E w \in Threads : LoopTest(w)
    \/ \E w \in Threads : SignalDone(w)
    \/ \E w \in Threads : CheckNext(w)
    \/ \E w \in Threads : SuspendSelf(w)
    \/ \E w \in Threads : ClaimNext(w)
    \/ \E w \in Threads : Fold(w)

Spec == Init /\ [][Next]_vars

\* Scheduling: the coordinator and every worker thread that is not suspended
\* keep being scheduled by the operating system.
FairSpec ==
    /\ Spec
    /\ WF_vars(Coordinator)
    /\ \A w \in 0 .. (MaxThreads - 1) : WF_vars(w \in Threads /\ Worker(w))

\* ------------------------------------- the block ranges, swept block by block
SweepInit ==
    /\ N \in 1 .. MaxSweepN
    /\ BLOCK_SIZE \in 1 .. MaxSweepBlockSize
    /\ numberOfThreads = 1
    /\ ProtocolIdle
    /\ SweepIdle

\* lines 73-94 for currentBlock = sweepBlock: the bounds and the for loop
SweepBlock ==
    /\ sweepBlock < NUMBER_OF_BLOCKS + SweepExtra
    /\ sweepRanges' = Append(sweepRanges,
                             <<startIteration(sweepBlock), endIteration(sweepBlock)>>)
    /\ sweepCount' = [j \in DOMAIN sweepCount |->
                        IF j \in Iterations(sweepBlock)
                           THEN sweepCount[j] + 1 ELSE sweepCount[j]]
    /\ sweepBlock' = sweepBlock + 1
    /\ UNCHANGED <<N, BLOCK_SIZE, protocolVars>>

SweepNext == SweepBlock

SweepSpec == SweepInit /\ [][SweepNext]_vars

\* ------------------------------------------------------------ properties
\* ceil(N / BLOCK_SIZE), stated without the macro of line 25
CeilBlocks == CHOOSE m \in 0 .. N : m * BLOCK_SIZE >= N /\ (m - 1) * BLOCK_SIZE < N

Started == cpc \notin {"create", "assign"}

HeldAt == { <<w, k>> \in Threads \X (1 .. (NUMBER_OF_BLOCKS + MaxThreads + 3)) :
              k <= Len(held[w]) }

Returned == { held[p[1]][p[2]] : p \in { q \in HeldAt : q[2] >= 2 } }

RECURSIVE SumThreadPi(_)
SumThreadPi(S) == IF S = {} THEN 0
                  ELSE LET w == CHOOSE x \in S : TRUE
                       IN threadPi[w] + SumThreadPi(S \ {w})

\* C1: no block index is handed out twice.  The first index of worker w is w,
\* the values returned by fetch_add are exactly numberOfThreads .. nextBlock-1
\* (no repeat, no gap), all indices held by all workers are pairwise distinct,
\* and once every worker is created the held indices are exactly 0 .. nextBlock-1.
C1_NoDuplicateNoGap ==
    /\ \A p \in HeldAt : \A q \in HeldAt :
          p # q => held[p[1]][p[2]] # held[q[1]][q[2]]
    /\ \A w \in Threads : pc[w] # "none" =>
          /\ held[w][1] = w
          /\ currentBlock[w] = held[w][Len(held[w])]
    /\ \A w \in Threads : \A v \in Threads :
          (w # v /\ pc[w] # "none" /\ pc[v] # "none") => currentBlock[w] # currentBlock[v]
    /\ Started =>
          /\ Returned = numberOfThreads .. (nextBlock - 1)
          /\ { held[p[1]][p[2]] : p \in HeldAt } = 0 .. (nextBlock - 1)

C1_Witness ==
    /\ numberOfThreads >= 2
    /\ nextBlock > NUMBER_OF_BLOCKS
    /\ \E w \in Threads : Len(held[w]) >= 3
    /\ \E w \in Threads : \E v \in Threads :
          w # v /\ Len(held[w]) >= 2 /\ Len(held[v]) >= 2

\* C2: when the coordinator has passed the wait-for-all and reads pi, pi holds
\* the sum of f over every sample index 0 .. N-1, each counted once (and after
\* the division it holds that sum over N).
C2_AccumulatorIsSequentialSum ==
    /\ cpc = "divide" => pi = [num |-> SumF(0 .. (N - 1)), den |-> 1]
    /\ cpc = "done" => pi = [num |-> SumF(0 .. (N - 1)), den |-> N]

C2_Witness ==
    /\ cpc = "done"
    /\ numberOfThreads >= 2
    /\ numberOfThreads <= NUMBER_OF_BLOCKS
    /\ N > BLOCK_SIZE
    /\ \E w \in Threads : Len(held[w]) >= 3

\* C3: the run never gets stuck: a state in which neither the coordinator nor
\* any worker can take a step is a state in which the run has ended.
C3_NoStall == (~ ENABLED Next) => cpc = "done"

\* C4: the ranges the worker computes for k = 0 .. M-1, M = ceil(N/BLOCK_SIZE),
\* are pairwise disjoint and cover exactly 0 .. N-1; every block before the
\* last has length BLOCK_SIZE; the last ends at N and has length BLOCK_SIZE
\* when BLOCK_SIZE divides N (then M = N / BLOCK_SIZE) and a shorter, non-zero
\* length otherwise; the range of every k >= M is empty; N = 10, BLOCK_SIZE = 3
\* gives [0,3) [3,6) [6,9) [9,10).
C4_Partition ==
    LET M == CeilBlocks
        covered == IF sweepBlock * BLOCK_SIZE > N THEN N ELSE sweepBlock * BLOCK_SIZE
    IN
    /\ NUMBER_OF_BLOCKS = M
    /\ N % BLOCK_SIZE = 0 => M = N \div BLOCK_SIZE
    /\ \A j \in DOMAIN sweepCount : sweepCount[j] = IF j < covered THEN 1 ELSE 0
    /\ \A k \in 0 .. (sweepBlock - 1) :
          LET lo == sweepRanges[k + 1][1]
              hi == sweepRanges[k + 1][2]
          IN /\ k < M - 1 => lo = k * BLOCK_SIZE /\ hi = lo + BLOCK_SIZE
             /\ k = M - 1 =>
                   /\ lo = k * BLOCK_SIZE
                   /\ hi = N
                   /\ hi - lo > 0
                   /\ IF N % BLOCK_SIZE = 0 THEN hi - lo = BLOCK_SIZE
                                            ELSE hi - lo < BLOCK_SIZE
             /\ k >= M => lo >= hi /\ Iterations(k) = {}
    /\ (N = 10 /\ BLOCK_SIZE = 3 /\ sweepBlock >= 4) =>
          SubSeq(sweepRanges, 1, 4) = << <<0, 3>>, <<3, 6>>, <<6, 9>>, <<9, 10>> >>

C4_Witness ==
    /\ N = 10
    /\ BLOCK_SIZE = 3
    /\ sweepBlock = NUMBER_OF_BLOCKS + SweepExtra
    /\ \A j \in DOMAIN sweepCount : sweepCount[j] = 1

\* C5 as stated: once the workers are started nextBlock never decreases and
\* stays within numberOfThreads .. NUMBER_OF_BLOCKS.
C5_CursorRange_Original ==
    /\ [](Started => (numberOfThreads <= nextBlock /\ nextBlock <= NUMBER_OF_BLOCKS))
    /\ [][Started => nextBlock' >= nextBlock]_vars

\* C5 amended: once the workers are started nextBlock never decreases and
\* stays within numberOfThreads .. numberOfThreads + NUMBER_OF_BLOCKS + 1.
C5_CursorRange_Amended ==
    /\ [](Started => (/\ numberOfThreads <= nextBlock
                      /\ nextBlock <= numberOfThreads + NUMBER_OF_BLOCKS + 1))
    /\ [][Started => nextBlock' >= nextBlock]_vars

C5_Witness ==
    /\ cpc = "done"
    /\ numberOfThreads <= NUMBER_OF_BLOCKS
    /\ nextBlock = numberOfThreads + NUMBER_OF_BLOCKS + 1

\* C6: the coordinator is at or past the read of pi (line 237) only when every
\* worker has returned, and the value it reads contains every worker's
\* threadPi; pi changes otherwise only by a worker's own fold.
C6_ReadAfterAllTerminated ==
    /\ [](cpc \in {"divide", "done"} => \A w \in Threads : pc[w] = "done")
    /\ [][(cpc = "divide" /\ cpc' = "done") =>
             /\ \A w \in Threads : pc[w] = "done"
             /\ pi = [num |-> SumThreadPi(Threads), den |-> 1]]_vars
    /\ [][(pi' # pi /\ cpc' = cpc) =>
             \E w \in Threads : pc[w] = "fold" /\ pc'[w] = "done"]_vars

C6_Witness ==
    /\ cpc = "done"
    /\ numberOfThreads >= 2
    /\ \A w \in Threads : pc[w] = "done"
    /\ pi.num > 0

\* C7: the event of worker w goes from unsignaled to signaled only in a step
\* of worker w, and from signaled to unsignaled only in the coordinator's
\* reset step; a step of another worker leaves it unchanged.
C7_SignalOwnership ==
    [][\A w \in Threads :
          /\ (~ eventsArray[w] /\ eventsArray'[w]) =>
                (pc[w] = "SetEvent" /\ pc'[w] = "if" /\ cpc' = cpc /\ i' = i)
          /\ (eventsArray[w] /\ ~ eventsArray'[w]) =>
                (cpc = "reset" /\ cpc' = "resume" /\ pc' = pc)
          /\ \A v \in Threads :
                (v # w /\ pc'[v] # pc[v] /\ cpc' = cpc) =>
                    eventsArray'[w] = eventsArray[w]]_vars

C7_Witness ==
    /\ numberOfThreads >= 2
    /\ cpc = "resume"
    /\ ~ eventsArray[suspendedThreadIndex]
    /\ \E w \in Threads : eventsArray[w] /\ pc[w] = "if"

\* C8: the index the wait-for-any returns is that of a worker whose event is
\* signaled when the wait returns; the reset step clears that event and no
\* other; the resume step acts on that worker's suspend count and no other.
C8_DispatchTargetsSignaledWorker ==
    /\ [](cpc = "reset" => eventsArray[suspendedThreadIndex])
    /\ [][(cpc = "wait" /\ cpc' = "reset") =>
             /\ suspendedThreadIndex' \in Threads
             /\ eventsArray[suspendedThreadIndex']
             /\ eventsArray' = eventsArray
             /\ suspendCount' = suspendCount]_vars
    /\ [][(cpc = "reset" /\ cpc' = "resume") =>
             /\ suspendedThreadIndex' = suspendedThreadIndex
             /\ ~ eventsArray'[suspendedThreadIndex]
             /\ \A w \in Threads \ {suspendedThreadIndex} :
                    eventsArray'[w] = eventsArray[w]
             /\ suspendCount' = suspendCount]_vars
    /\ [][(cpc = "resume" /\ cpc' = "test") =>
             /\ suspendedThreadIndex' = suspendedThreadIndex
             /\ suspendCount'[suspendedThreadIndex] =
                   IF suspendCount[suspendedThreadIndex] > 0
                      THEN suspendCount[suspendedThreadIndex] - 1 ELSE 0
             /\ \A w \in Threads \ {suspendedThreadIndex} :
                    suspendCount'[w] = suspendCount[w]
             /\ eventsArray' = eventsArray]_vars

C8_Witness ==
    /\ numberOfThreads >= 2
    /\ cpc = "test"
    /\ ~ eventsArray[suspendedThreadIndex]
    /\ pc[suspendedThreadIndex] = "fetch_add"
    /\ suspendCount[suspendedThreadIndex] = 0
    /\ \E w \in Threads :
          /\ w < suspendedThreadIndex
          /\ pc[w] = "SetEvent"

\* C9: a resume of the dispatch loop is applied only to a worker that has
\* already suspended itself.
C9_ResumeOnlySuspended ==
    [][(cpc = "resume" /\ cpc' = "test") =>
          /\ suspendCount[suspendedThreadIndex] > 0
          /\ pc[suspendedThreadIndex] = "fetch_add"]_vars

\* C10: after the start phase a worker becomes suspended only by its own
\* suspend call that follows its SetEvent, and only while nextBlock has not
\* exceeded NUMBER_OF_BLOCKS.
C10_SuspendOnlyIfWorkRemains ==
    [][\A w \in Threads :
          (pc[w] # "none" /\ suspendCount[w] = 0 /\ suspendCount'[w] > 0) =>
              /\ pc[w] = "SuspendThread"
              /\ nextBlock <= NUMBER_OF_BLOCKS]_vars

LeftDispatchLoop == cpc \in {"final", "waitall", "divide", "done"}

FinalResumesDone == cpc \in {"waitall", "divide", "done"}

\* C11: once the final resume loop (lines 224-231) has completed, no worker is
\* suspended and no worker becomes suspended again.
C11_NoSuspensionAfterFinalResume ==
    /\ [](FinalResumesDone => \A w \in Threads : suspendCount[w] = 0)
    /\ [][FinalResumesDone =>
             \A w \in Threads : suspendCount'[w] <= suspendCount[w]]_vars

\* C12: a worker runs the loop body (the block computation, SetEvent, the
\* suspend) only while its block index is below NUMBER_OF_BLOCKS; with an
\* index >= NUMBER_OF_BLOCKS its next steps are the fold and the return.
C12_LoopBodyOnlyBelowM ==
    /\ [](\A w \in Threads :
            pc[w] \in {"SetEvent", "if", "SuspendThread"} =>
                currentBlock[w] < NUMBER_OF_BLOCKS)
    /\ [][\A w \in Threads :
            (pc[w] = "while" /\ pc'[w] # "while"
                /\ currentBlock[w] >= NUMBER_OF_BLOCKS) =>
                    pc'[w] = "fold"]_vars

\* C13: every slot of threadsArray and eventsArray the coordinator indexes is
\* one of 0 .. numberOfThreads-1; in particular each pass of the start loop
\* (lines 179-181) resumes worker i with i < numberOfThreads.
C13_SlotsWithinArrays ==
    /\ [][(cpc = "start" /\ i' = i + 1) => i \in Threads]_vars
    /\ [][(cpc = "create" /\ i' = i + 1) => i \in Threads]_vars
    /\ [][(cpc = "final" /\ i' = i + 1) => i \in Threads]_vars
    /\ [](cpc \in {"reset", "resume"} => suspendedThreadIndex \in Threads)

ReturnedWorkers == { v \in Threads : pc[v] = "done" }

\* C14: a worker adds threadPi into pi exactly once, in its last step before it
\* has returned and only holding an index beyond the loop bound; a returned
\* worker changes nothing any more, pi changes before the division only by
\* such a step, and pi is at every moment the sum of threadPi over the workers
\* that have returned (so numberOfThreads adds at the end).
C14_FoldOnceThenReturn ==
    /\ [][\A w \in Threads :
            /\ pc[w] = "done" =>
                  /\ pc'[w] = "done"
                  /\ held'[w] = held[w]
                  /\ currentBlock'[w] = currentBlock[w]
                  /\ threadPi'[w] = threadPi[w]
            /\ (pc[w] # "done" /\ pc'[w] = "done") =>
                  /\ pc[w] = "fold"
                  /\ currentBlock[w] > NUMBER_OF_BLOCKS
                  /\ pi' = [num |-> pi.num + threadPi[w], den |-> 1]
            /\ (pc[w] = "fold" /\ pc'[w] # "fold") => pc'[w] = "done"]_vars
    /\ [][(pi' # pi /\ cpc' = cpc) =>
             \E w \in Threads : pc[w] # "done" /\ pc'[w] = "done"]_vars
    /\ [](cpc # "done" =>
             pi = [num |-> SumThreadPi(ReturnedWorkers), den |-> 1])
    /\ [](cpc \in {"divide", "done"} => ReturnedWorkers = Threads)

C14_Witness ==
    /\ cpc = "waitall"
    /\ numberOfThreads >= 2
    /\ \A w \in Threads : pc[w] = "done"
    /\ \E w \in Threads : threadPi[w] > 0 /\ Len(held[w]) >= 2
    /\ pi.num = SumF(0 .. (N - 1))

\* C15: until nextBlock = numberOfThreads (line 173) has been executed every
\* created worker is still suspended at its entry with nothing computed,
\* signaled or claimed; every step of a worker happens after it, with
\* nextBlock >= numberOfThreads.
C15_NothingRunsBeforeAssignment ==
    /\ [](~ Started =>
            \A w \in Threads :
               /\ pc[w] \in {"none", "while"}
               /\ pc[w] = "while" => suspendCount[w] = 1
               /\ threadPi[w] = 0
               /\ ~ eventsArray[w]
               /\ Len(held[w]) <= 1)
    /\ [][\A w \in Threads :
            (pc[w] # "none" /\ pc'[w] # pc[w]) =>
                (Started /\ nextBlock >= numberOfThreads)]_vars

C15_Witness ==
    /\ numberOfThreads >= 2
    /\ cpc = "start"
    /\ i = 1
    /\ pc[0] = "fetch_add"
    /\ pc[1] = "while"
    /\ suspendCount[1] = 1
    /\ nextBlock = numberOfThreads

\* C16: once the coordinator has left the dispatch loop (line 204 saw
\* nextBlock > NUMBER_OF_BLOCKS) every index 0 .. NUMBER_OF_BLOCKS-1 is held by
\* some worker, every later fetch_add returns an index above NUMBER_OF_BLOCKS,
\* and a worker holding such an index adds nothing to threadPi and goes on to
\* the fold.
C16_AllDispensedAfterLoop ==
    /\ [](LeftDispatchLoop =>
            /\ nextBlock > NUMBER_OF_BLOCKS
            /\ \A k \in 0 .. (NUMBER_OF_BLOCKS - 1) :
                  \E p \in HeldAt : held[p[1]][p[2]] = k)
    /\ [][LeftDispatchLoop =>
            \A w \in Threads :
               /\ held'[w] # held[w] =>
                     /\ currentBlock'[w] > NUMBER_OF_BLOCKS
                     /\ held'[w] = Append(held[w], currentBlock'[w])
               /\ (currentBlock[w] > NUMBER_OF_BLOCKS /\ pc[w] = "while"
                      /\ pc'[w] # "while") =>
                     (pc'[w] = "fold" /\ threadPi'[w] = threadPi[w])]_vars

C16_Witness ==
    /\ cpc = "final"
    /\ numberOfThreads >= 2
    /\ numberOfThreads <= NUMBER_OF_BLOCKS
    /\ \E w \in Threads :
          /\ pc[w] = "while"
          /\ currentBlock[w] > NUMBER_OF_BLOCKS
          /\ Len(held[w]) >= 2
    /\ \E w \in Threads : pc[w] = "SetEvent" /\ currentBlock[w] < NUMBER_OF_BLOCKS

ManyThreads == numberOfThreads > NUMBER_OF_BLOCKS

\* C17: with numberOfThreads > NUMBER_OF_BLOCKS the coordinator never enters
\* the dispatch loop body; no started worker suspends itself; a worker whose id
\* is above NUMBER_OF_BLOCKS sets no event, claims nothing and folds 0; under
\* fair scheduling the run ends, and then block k < NUMBER_OF_BLOCKS has been
\* computed by worker k and by it alone.
C17_ManyThreads ==
    /\ [](ManyThreads =>
            /\ cpc \notin {"wait", "reset", "resume"}
            /\ \A w \in Threads :
                  /\ pc[w] # "SuspendThread"
                  /\ (pc[w] # "none" /\ Started /\ cpc # "start") => suspendCount[w] = 0
                  /\ w > NUMBER_OF_BLOCKS =>
                        /\ pc[w] \in {"none", "while", "fold", "done"}
                        /\ ~ eventsArray[w]
                        /\ Len(held[w]) <= 1
                        /\ threadPi[w] = 0)
    /\ [][ManyThreads =>
            \A w \in Threads :
               (pc[w] # "none" /\ suspendCount[w] = 0) => suspendCount'[w] = 0]_vars
    /\ [](ManyThreads /\ cpc = "done" =>
            \A k \in 0 .. (NUMBER_OF_BLOCKS - 1) :
               /\ held[k][1] = k
               /\ threadPi[k] = BlockSum(k)
               /\ \A w \in Threads \ {k} : \A n \in 1 .. Len(held[w]) : held[w][n] # k)
    /\ (ManyThreads ~> (cpc = "done" /\ \A w \in Threads : pc[w] = "done"))

C17_Witness ==
    /\ numberOfThreads > NUMBER_OF_BLOCKS + 1
    /\ cpc = "done"
    /\ N > 0
    /\ pc[NUMBER_OF_BLOCKS + 1] = "done"
    /\ threadPi[NUMBER_OF_BLOCKS + 1] = 0
    /\ threadPi[0] > 0
====
